---- MODULE Spec2Model ----
(***************************************************************************)
(* The typed multicall builder of rtorrent-xmlrpc-bindings: the builder    *)
(* value, the request it emits, the transport round trip, and the decode   *)
(* of the rows the transport returns.                                      *)
(***************************************************************************)
EXTENDS Integers, Sequences, FiniteSets, TLC

VARIABLES
    builder,   \* the builder value the caller holds (NoBuilder before `new`)
    created,   \* the constructor call that made the builder, and its result
    called,    \* the operations passed to `call` since `new`, in call order
    op,        \* the operation that completed last
    request,   \* the request handed to the transport by the last operation
    reply,     \* what the transport answered to it
    ret,       \* the value the last operation returned to the caller
    invokes,   \* number of `invoke` calls made by the caller
    calls,     \* number of round trips made by the transport
    accessor,  \* the accessor call on an entity handle, or the decode, that
               \* completed last, with its arguments
    instance,  \* the Server made by Server::new, with the endpoint given
    wire,      \* the transport and the address the last Server::execute used
    heap,      \* the builders several threads hold a reference to
    threads,   \* each thread's position in its invoke, and what it holds
    conns      \* the connections opened to the remote side, in opening order

vars ==
    <<builder, created, called, op, request, reply, ret, invokes, calls,
      accessor, instance, wire, heap, threads, conns>>

---------------------------------------------------------------------------
(* Bounds of the model.                                                    *)

\* rows in one response
MaxRows == 2
\* values in one row of a response
MaxRowLen == 2
\* transport round trips in one behaviour
MaxCalls == 2
\* the largest index of a file or tracker handle
MaxIndex == 10
\* the wire integers -MaxWireInt .. MaxWireInt are decoded, and a few others
MaxWireInt == 2
\* bytes in one response read from the local socket, when the bytes are
\* arbitrary
MaxResponseLen == 3
\* threads that invoke at the same time
MaxThreads == 2

---------------------------------------------------------------------------
(* xmlrpc::Value: the wire values.                                         *)

Value_Int(i) == [tag |-> "Int", i |-> i]
Value_Int64(i) == [tag |-> "Int64", i |-> i]
Value_Bool(b) == [tag |-> "Bool", b |-> b]
Value_String(s) == [tag |-> "String", s |-> s]
Value_Array(a) == [tag |-> "Array", a |-> a]
Value_Nil == [tag |-> "Nil"]
\* the variants no decode names: they fall to the `_` arm of every match
Value_Double(num, den) == [tag |-> "Double", num |-> num, den |-> den]
Value_DateTime(t) == [tag |-> "DateTime", t |-> t]
Value_Base64(bytes) == [tag |-> "Base64", bytes |-> bytes]
Value_Struct(members) == [tag |-> "Struct", members |-> members]

(* Native values produced by a decode, tagged with their Rust type.        *)
I64(n) == [ty |-> "i64", i |-> n]
\* an f64 that is the quotient num / den
F64(num, den) == [ty |-> "f64", num |-> num, den |-> den]
NativeBool(b) == [ty |-> "bool", b |-> b]
NativeString(s) == [ty |-> "String", s |-> s]
Unit == [ty |-> "()"]

(* Result<T, E>.                                                           *)
Ok(v) == [ok |-> TRUE, val |-> v]
Err(e) == [ok |-> FALSE, err |-> e]

(* crate::Error.                                                           *)
XmlRpc(x) == [variant |-> "XmlRpc", source |-> x]
\* the message of an UnexpectedStructure names what was received and what
\* was expected
UnexpectedStructure(got, expected) ==
    [variant |-> "UnexpectedStructure", got |-> got, expected |-> expected]

\* mutant: a transport failure is reported as a structural error
From_xmlrpc_Error_structural(x) == UnexpectedStructure(x, "response")

\* impl From<xmlrpc::Error> for Error
From_xmlrpc_Error(x) == XmlRpc(x)

\* the `?` operator on a Result<_, xmlrpc::Error> inside a fn returning
\* crate::Result: an Err is converted with From and returned
Question(r) == IF r.ok THEN r ELSE Err(From_xmlrpc_Error(r.err))

---------------------------------------------------------------------------
(* value_conversion.rs                                                     *)

\* mutant: a wire boolean is taken as the integer 1 or 0
i64_try_from_value_bool(val) ==
    CASE val.tag = "Int" -> Ok(I64(val.i))
      [] val.tag = "Int64" -> Ok(I64(val.i))
      [] val.tag = "Bool" -> Ok(I64(IF val.b THEN 1 ELSE 0))
      [] OTHER -> Err(UnexpectedStructure(val, "integer"))

i64_try_from_value(val) ==
    CASE val.tag = "Int" -> Ok(I64(val.i))
      [] val.tag = "Int64" -> Ok(I64(val.i))
      [] OTHER -> Err(UnexpectedStructure(val, "integer"))

\* mutant: the integer is returned without the division
f64_try_from_value_unscaled(val) ==
    LET i == i64_try_from_value(val)
    IN IF i.ok THEN Ok(F64(i.val.i, 1)) ELSE i

f64_try_from_value(val) ==
    LET i == i64_try_from_value(val)
    IN IF i.ok THEN Ok(F64(i.val.i, 1000)) ELSE i

\* mutant: only the integer 1 is true
bool_try_from_value_one(val) ==
    CASE val.tag = "Int" -> Ok(NativeBool(val.i = 1))
      [] val.tag = "Int64" -> Ok(NativeBool(val.i = 1))
      [] val.tag = "Bool" -> Ok(NativeBool(val.b))
      [] OTHER -> Err(UnexpectedStructure(val, "bool or integer type"))

bool_try_from_value(val) ==
    CASE val.tag = "Int" -> Ok(NativeBool(val.i # 0))
      [] val.tag = "Int64" -> Ok(NativeBool(val.i # 0))
      [] val.tag = "Bool" -> Ok(NativeBool(val.b))
      [] OTHER -> Err(UnexpectedStructure(val, "bool or integer type"))

string(val) ==
    CASE val.tag = "String" -> Ok(val.s)
      [] OTHER -> Err(UnexpectedStructure(val, "string"))

String_try_from_value(val) ==
    LET s == string(val)
    IN IF s.ok THEN Ok(NativeString(s.val)) ELSE s

unit_try_from_value(val) ==
    CASE val.tag = "Int" /\ val.i = 0 -> Ok(Unit)
      [] val.tag = "Nil" -> Ok(Unit)
      [] OTHER -> Err(UnexpectedStructure(val, "int(0) or nil"))

\* mutant: a value that is not an array is taken as an array of one element
list_lenient(val) ==
    CASE val.tag = "Array" -> Ok(val.a)
      [] OTHER -> Ok(<<val>>)

\* mutant: an array without elements is refused
list_nonempty(val) ==
    CASE val.tag = "Array" /\ val.a # <<>> -> Ok(val.a)
      [] OTHER -> Err(UnexpectedStructure(val, "array"))

list(val) ==
    CASE val.tag = "Array" -> Ok(val.a)
      [] OTHER -> Err(UnexpectedStructure(val, "array"))

\* <T as TryFromValue>::try_from_value, T given by name
try_from_value(T, val) ==
    CASE T = "i64" -> i64_try_from_value(val)
      [] T = "f64" -> f64_try_from_value(val)
      [] T = "bool" -> bool_try_from_value(val)
      [] T = "String" -> String_try_from_value(val)
      [] T = "()" -> unit_try_from_value(val)

---------------------------------------------------------------------------
(* lib.rs: Server::execute. The transport makes one round trip and the     *)
(* remote side's answer `answer` is what comes back: Ok(Value) or          *)
(* Err(xmlrpc::Error).                                                     *)

Server_execute(req, answer) == answer

\* the transport's round-trip count once Server::execute has returned: the
\* request is handed to the transport once (call_url or call)
\* mutant: a failed or successful call is made a second time
Server_execute_calls_retry(n) == n + 2

Server_execute_calls(n) == n + 1

---------------------------------------------------------------------------
(* lib.rs: the two transports. A response read from the local socket is a  *)
(* sequence of bytes, of which the model tells "CR", "LF" and "x" (any     *)
(* other byte) apart.                                                      *)

\* a call that did not return: the thread panicked with the message msg
Panic(msg) == [panic |-> TRUE, msg |-> msg]
IsPanic(r) == "panic" \in DOMAIN r

\* str::starts_with
starts_with(s, pat) == Len(s) >= Len(pat) /\ SubSeq(s, 1, Len(pat)) = pat

Http(url) == [kind |-> "Http", url |-> url]
UnixSocketTransport_new(socket) == [socket |-> socket]
Scgi(transport) == [kind |-> "Scgi", transport |-> transport]

\* mutant: every endpoint that starts with "http" is taken for a URL
Server_new_http_any(endpoint) ==
    [inner |->
        [endpoint |-> IF starts_with(endpoint, "http")
                      THEN Http(endpoint)
                      ELSE Scgi(UnixSocketTransport_new(endpoint))]]

Server_new(endpoint) ==
    [inner |->
        [endpoint |-> IF starts_with(endpoint, "http://")
                      THEN Http(endpoint)
                      ELSE Scgi(UnixSocketTransport_new(endpoint))]]

\* the index (from 1) of the first window of four bytes that is CR LF CR LF,
\* or 0 when there is none
header_end(response) ==
    LET found == {i \in 1..(Len(response) - 3) :
                     SubSeq(response, i, i + 3) = <<"CR", "LF", "CR", "LF">>}
    IN IF found = {} THEN 0
       ELSE CHOOSE i \in found : \A k \in found : i <= k

\* UnixSocketTransport::process_body, given what the socket does: `sock` is
\* Err(e) when connecting, writing or reading fails and Ok(bytes) when the
\* response was read to its end
process_body(transport, body, sock) ==
    IF ~sock.ok THEN sock
    ELSE LET response == sock.val
             i == header_end(response)
         IN IF i = 0 THEN Panic("foo")
            ELSE Ok(SubSeq(response, i + 4, Len(response)))

\* Transport::transmit for UnixSocketTransport
transmit(transport, req, sock) ==
    LET response == process_body(transport, req, sock)
    IN response

\* the xmlrpc crate reading a response body: "x" alone stands for a
\* well-formed methodResponse, which holds the integer 0
parse_response(body) ==
    IF body = <<"x">> THEN Ok(Value_Int(0)) ELSE Err("parse")

\* Request::call(transport): transmit, then read the response
Request_call(transport, req, sock) ==
    LET stream == transmit(transport, req, sock)
    IN IF IsPanic(stream) THEN stream
       ELSE IF stream.ok THEN parse_response(stream.val)
       ELSE stream

\* Request::call_url(url), given the answer of the HTTP round trip
Request_call_url(url, req, answer) == answer

\* Server::execute: `io` is what the endpoint's transport meets, the answer
\* of the HTTP round trip or what the socket does
Server_execute_on(self, req, io) ==
    CASE self.inner.endpoint.kind = "Http" ->
             Request_call_url(self.inner.endpoint.url, req, io)
      [] self.inner.endpoint.kind = "Scgi" ->
             Request_call(self.inner.endpoint.transport, req, io)

\* the transport Server::execute hands the request to, and its address
Server_execute_wire(self) ==
    CASE self.inner.endpoint.kind = "Http" ->
             [transport |-> "call_url", address |-> self.inner.endpoint.url]
      [] self.inner.endpoint.kind = "Scgi" ->
             [transport |-> "call",
              address |-> self.inner.endpoint.transport.socket]

---------------------------------------------------------------------------
(* multicall/raw_impl.rs: MultiBuilderInternal                             *)

MultiBuilderInternal_new(server, multicall, call_target, call_filter) ==
    [server |-> server,
     multicall |-> multicall,
     call_target |-> call_target,
     call_filter |-> call_filter,
     args |-> <<>>]

\* mutant: the new column is put in front of the list
push_arg_front(inner, val) == [inner EXCEPT !.args = <<val>> \o @]

push_arg(inner, val) == [inner EXCEPT !.args = Append(@, val)]

\* mutant: the target and the filter change places
as_request_swapped(inner) ==
    [method |-> inner.multicall,
     args |-> <<inner.call_filter, inner.call_target>> \o inner.args]

as_request(inner) ==
    [method |-> inner.multicall,
     args |-> <<inner.call_target, inner.call_filter>> \o inner.args]

\* MultiBuilderInternal::invoke, given the transport's answer
Internal_invoke(inner, answer) ==
    LET l == Question(Server_execute(as_request(inner), answer))
    IN IF l.ok THEN list(l.val) ELSE l

\* raw_impl::MultiBuilder::new (the arity-0 raw builder)
raw_MultiBuilder_new(server, multicall, call_target, call_filter) ==
    [inner |-> MultiBuilderInternal_new(server, multicall,
                                        Value_String(call_target),
                                        Value_String(call_filter)),
     tys |-> <<>>]

\* mutant: the new column's type is put in front of the type list
raw_call_type_front(b, T, getter) ==
    [inner |-> push_arg(b.inner, Value_String(getter \o "=")),
     tys |-> <<T>> \o b.tys]

\* mutant: the filter is cleared when a column is added
raw_call_filter_reset(b, T, getter) ==
    [inner |-> [push_arg(b.inner, Value_String(getter \o "=")) EXCEPT
                   !.call_filter = Value_String("")],
     tys |-> Append(b.tys, T)]

\* raw define_builder!::call::<T>(getter)
raw_call(b, T, getter) ==
    [inner |-> push_arg(b.inner, Value_String(getter \o "=")),
     tys |-> Append(b.tys, T)]

\* mutant: of the columns that do not decode, the last one's error is
\* returned
decode_columns_from_right(tys, row, i, acc) ==
    LET bad == {k \in 1..Len(tys) : ~try_from_value(tys[k], row[k]).ok}
    IN IF bad = {}
       THEN Ok([k \in 1..Len(tys) |-> try_from_value(tys[k], row[k]).val])
       ELSE try_from_value(tys[CHOOSE k \in bad : \A h \in bad : h <= k],
                           row[CHOOSE k \in bad : \A h \in bad : h <= k])

\* the tuple pushed for one row of the right length: the columns are decoded
\* left to right and the first failure is returned
RECURSIVE decode_columns(_, _, _, _)
decode_columns(tys, row, i, acc) ==
    IF i > Len(tys) THEN Ok(acc)
    ELSE LET c == try_from_value(tys[i], row[i])
         IN IF c.ok THEN decode_columns(tys, row, i + 1, Append(acc, c.val))
            ELSE c

\* mutant: a row longer than the column list is cut to it
RECURSIVE decode_rows_prefix(_, _, _, _)
decode_rows_prefix(tys, rows, j, res) ==
    IF j > Len(rows) THEN Ok(res)
    ELSE LET row == list(rows[j])
         IN IF ~row.ok THEN row
            ELSE IF Len(row.val) >= Len(tys)
                 THEN LET t == decode_columns(tys, row.val, 1, <<>>)
                      IN IF t.ok
                         THEN decode_rows_prefix(tys, rows, j + 1,
                                                 Append(res, t.val))
                         ELSE t
                 ELSE Err(UnexpectedStructure(Value_Array(row.val),
                                              "row missing columns"))

\* mutant: at the first value that does not decode, the rows decoded so far
\* are returned
RECURSIVE decode_rows_partial(_, _, _, _)
decode_rows_partial(tys, rows, j, res) ==
    IF j > Len(rows) THEN Ok(res)
    ELSE LET row == list(rows[j])
         IN IF ~row.ok THEN row
            ELSE IF Len(row.val) = Len(tys)
                 THEN LET t == decode_columns(tys, row.val, 1, <<>>)
                      IN IF t.ok
                         THEN decode_rows_partial(tys, rows, j + 1,
                                                  Append(res, t.val))
                         ELSE Ok(res)
                 ELSE Err(UnexpectedStructure(Value_Array(row.val),
                                              "row missing columns"))

\* the `for row in list` loop of raw define_builder!::invoke
RECURSIVE decode_rows(_, _, _, _)
decode_rows(tys, rows, j, res) ==
    IF j > Len(rows) THEN Ok(res)
    ELSE LET row == list(rows[j])
         IN IF ~row.ok THEN row
            ELSE IF Len(row.val) = Len(tys)
                 THEN LET t == decode_columns(tys, row.val, 1, <<>>)
                      IN IF t.ok
                         THEN decode_rows(tys, rows, j + 1, Append(res, t.val))
                         ELSE t
                 ELSE Err(UnexpectedStructure(Value_Array(row.val),
                                              "row missing columns"))

\* raw define_builder!::invoke, given the transport's answer
raw_invoke(b, answer) ==
    LET l == Internal_invoke(b.inner, answer)
    IN IF l.ok THEN decode_rows(b.tys, l.val, 1, <<>>) ELSE l

---------------------------------------------------------------------------
(* Option<T>.                                                              *)

None == [some |-> FALSE]
Some(x) == [some |-> TRUE, val |-> x]
unwrap_or(o, default) == IF o.some THEN o.val ELSE default

---------------------------------------------------------------------------
(* multicall/ops: the operation catalogs and the per-kind builders.        *)

\* op_const!: a catalog constant of type $type<$res> named concat!(prefix, api)
op_const(type, name, res, api_prefix, api) ==
    [optype |-> type, const |-> name, res |-> res, name |-> api_prefix \o api]

f_op_const(name, res, api) == op_const("FileMultiCallOp", name, res, "p.", api)
p_op_const(name, res, api) == op_const("PeerMultiCallOp", name, res, "p.", api)
t_op_const(name, res, api) == op_const("TrackerMultiCallOp", name, res, "t.", api)
\* ops/d.rs: the download catalog, after the f, p and t catalogs
d_op_const(name, res, api) == op_const("DownloadMultiCallOp", name, res, "d.", api)

f_ops ==
    { f_op_const("COMPLETED_CHUNKS", "i64", "completed_chunks"),
      f_op_const("FROZEN_PATH", "String", "frozen_path"),
      f_op_const("OFFSET", "i64", "offset"),
      f_op_const("PATH", "String", "path"),
      f_op_const("PRIORITY", "i64", "priority"),
      f_op_const("SIZE_BYTES", "i64", "size_bytes"),
      f_op_const("SIZE_CHUNKS", "i64", "size_chunks") }

p_ops ==
    { p_op_const("ADDRESS", "String", "address"),
      p_op_const("BANNED", "bool", "banned"),
      p_op_const("CLIENT_VERSION", "String", "client_version"),
      p_op_const("COMPLETED_PERCENT", "i64", "completed_percent"),
      p_op_const("DOWN_RATE", "i64", "down_rate"),
      p_op_const("DOWN_TOTAL", "i64", "down_total"),
      p_op_const("ID", "String", "id"),
      p_op_const("ID_HTML", "String", "id_html"),
      p_op_const("IS_ENCRYPTED", "bool", "is_encrypted"),
      p_op_const("IS_INCOMING", "bool", "is_incoming"),
      p_op_const("IS_OBFUSCATED", "bool", "is_obfuscated"),
      p_op_const("IS_PREFERRED", "bool", "is_preferred"),
      p_op_const("IS_UNWANTED", "bool", "is_unwanted"),
      p_op_const("PEER_RATE", "i64", "peer_rate"),
      p_op_const("PEER_TOTAL", "i64", "peer_total"),
      p_op_const("PORT", "i64", "port"),
      p_op_const("SNUBBED", "bool", "snubbed"),
      p_op_const("UP_RATE", "i64", "up_rate"),
      p_op_const("UP_TOTAL", "i64", "up_total") }

t_ops ==
    { t_op_const("URL", "String", "url"),
      t_op_const("ACTIVTY_TIME_LAST", "i64", "activity_time_last"),
      t_op_const("ACTIVTY_TIME_NEXT", "i64", "activity_time_next"),
      t_op_const("GROUP", "i64", "group"),
      t_op_const("ID", "String", "id"),
      t_op_const("LATEST_SUM_PEERS", "i64", "latest_sum_peers") }

\* ops/d.rs: the download operations the documentation uses
d_ops ==
    { d_op_const("NAME", "String", "name"),
      d_op_const("RATIO", "f64", "ratio"),
      d_op_const("SIZE_BYTES", "i64", "size_bytes") }

\* the largest MultiBuilder<k> that define_builder! generates in mod d, f,
\* p, t
d_MaxArity == 9
f_MaxArity == 5
p_MaxArity == 6
t_MaxArity == 4

MaxArity(optype) ==
    CASE optype = "DownloadMultiCallOp" -> d_MaxArity
      [] optype = "FileMultiCallOp" -> f_MaxArity
      [] optype = "PeerMultiCallOp" -> p_MaxArity
      [] optype = "TrackerMultiCallOp" -> t_MaxArity

\* ops/d.rs: d::MultiBuilder::new(server, view), the d.multicall2 over the
\* downloads of a view, with an empty target
d_MultiBuilder_new(server, view) ==
    [optype |-> "DownloadMultiCallOp",
     inner |-> raw_MultiBuilder_new(server, "d.multicall2", "", view)]

f_MultiBuilder_new(server, download_sha1, glob) ==
    [optype |-> "FileMultiCallOp",
     inner |-> raw_MultiBuilder_new(server, "f.multicall", download_sha1,
                                    unwrap_or(glob, ""))]

p_MultiBuilder_new(server, download_sha1) ==
    [optype |-> "PeerMultiCallOp",
     inner |-> raw_MultiBuilder_new(server, "p.multicall", download_sha1, "")]

\* mutant: the tracker builder is given the peer multicall
t_MultiBuilder_new_peer(server, download_sha1) ==
    [optype |-> "TrackerMultiCallOp",
     inner |-> raw_MultiBuilder_new(server, "p.multicall", download_sha1, "")]

t_MultiBuilder_new(server, download_sha1) ==
    [optype |-> "TrackerMultiCallOp",
     inner |-> raw_MultiBuilder_new(server, "t.multicall", download_sha1, "")]

\* mutant: `call` takes an operation of any kind
ops_call_accepts_any(b, getter) == TRUE

\* the parameter type of ops define_builder!::call, `getter: $optype<T>`:
\* op_type! makes one struct per kind, so only an operation of the
\* builder's own $optype is accepted
ops_call_accepts(b, getter) == getter.optype = b.optype

\* ops define_builder!::call(getter: $optype<T>)
ops_call(b, getter) ==
    [optype |-> b.optype,
     inner |-> raw_call(b.inner, getter.res, getter.name)]

\* ops define_builder!::invoke
ops_invoke(b, answer) == raw_invoke(b.inner, answer)

\* mutant: the arguments are moved into the request
as_request_self_drained(inner) == [inner EXCEPT !.args = <<>>]

\* as_request and invoke take &self and clone every field they send: the
\* MultiBuilderInternal as it is once the request has been built
as_request_self(inner) == inner

\* the number of columns of a builder: the k of its type MultiBuilder<k>
Arity(b) == Len(b.inner.tys)

\* mutant: the last builder type of a kind has `call` too
call_defined_on_last(b) == Arity(b) <= MaxArity(b.optype)

\* `call` is in the impl of $prev: MultiBuilder and MultiBuilder1 ..
\* MultiBuilder<N-1> of the kind's chain
call_defined(b) == Arity(b) < MaxArity(b.optype)

\* `invoke` is in the impl of $name: MultiBuilder1 .. MultiBuilder<N>
invoke_defined(b) == Arity(b) >= 1

NoBuilder == [optype |-> "none"]

---------------------------------------------------------------------------
(* Entity handles and the single-call getters (prim_getter!).              *)

Download_from_hash(server, hash) ==
    [entity |-> "Download", server |-> server, sha1_hex |-> hash]

Peer_new(download, peerhash) ==
    [entity |-> "Peer", download |-> download, peer_sha1_hex |-> peerhash]

File_new(download, index) ==
    [entity |-> "File", download |-> download, index |-> index]

Tracker_new(download, index) ==
    [entity |-> "Tracker", download |-> download, index |-> index]

\* the "{}" of format! on an i64: the decimal digits, most significant
\* first, after a "-" when the value is negative
RECURSIVE Display_u(_)
Display_u(n) ==
    LET digit == SubSeq("0123456789", (n % 10) + 1, (n % 10) + 1)
    IN IF n < 10 THEN digit ELSE Display_u(n \div 10) \o digit

Display_i64(n) == IF n < 0 THEN "-" \o Display_u(0 - n) ELSE Display_u(n)

\* Download::execute and Peer::execute
Download_execute(self, req, io) ==
    Server_execute_on(self.server, req, io)

Peer_execute(self, req, io) == Download_execute(self.download, req, io)

\* impl From<&Download> for Value
Value_from_Download(dl) == Value_String(dl.sha1_hex)

\* impl From<&File> for Value
Value_from_File(file) ==
    Value_String(file.download.sha1_hex \o ":f" \o Display_i64(file.index))

\* mutant: the tracker's key is written with the file's letter
Value_from_Tracker_as_file(tracker) ==
    Value_String(tracker.download.sha1_hex \o ":f"
                 \o Display_i64(tracker.index))

\* impl From<&Tracker> for Value
Value_from_Tracker(tracker) ==
    Value_String(tracker.download.sha1_hex \o ":t"
                 \o Display_i64(tracker.index))

\* impl From<&Peer> for Value
Value_from_Peer(peer) ==
    Value_String(peer.download.sha1_hex \o ":p" \o peer.peer_sha1_hex)

\* Request::arg(self): the handle's From impl is chosen by its type
Value_from(h) ==
    CASE h.entity = "Download" -> Value_from_Download(h)
      [] h.entity = "Peer" -> Value_from_Peer(h)
      [] h.entity = "File" -> Value_from_File(h)
      [] h.entity = "Tracker" -> Value_from_Tracker(h)

\* mutant: the namespace is left out of the procedure name
prim_getter_request_bare(ns, method, self) ==
    [method |-> method, args |-> <<Value_from(self)>>]

\* the request prim_getter! builds for method $ns$method on `self`
prim_getter_request(ns, method, self) ==
    [method |-> ns \o method, args |-> <<Value_from(self)>>]

\* prim_getter!: the value returned, given the transport's answer
prim_getter(ns, method, result, self, answer) ==
    LET val == Question(Server_execute(prim_getter_request(ns, method, self),
                                       answer))
    IN IF val.ok THEN try_from_value(result, val.val) ELSE val

\* the request prim_getter_named! builds: the procedure is $ns$apimethod
prim_getter_named_request(ns, method, result, apimethod, self) ==
    [method |-> ns \o apimethod, args |-> <<Value_from(self)>>]

\* prim_getter_named!: the value returned, given the transport's answer
prim_getter_named(ns, method, result, apimethod, self, answer) ==
    LET val == Question(Server_execute(
                   prim_getter_named_request(ns, method, result, apimethod,
                                             self), answer))
    IN IF val.ok THEN try_from_value(result, val.val) ELSE val

\* the request prim_setter! builds: the procedure is $ns$apimethod.set and
\* the only argument is `self`; the parameter `_new` is not used
prim_setter_request(ns, rmethod, apimethod, ty, self, new) ==
    [method |-> ns \o apimethod \o ".set", args |-> <<Value_from(self)>>]

\* prim_setter!: the value returned, given the transport's answer
prim_setter(ns, rmethod, apimethod, ty, self, new, answer) ==
    LET val == Question(Server_execute(
                   prim_setter_request(ns, rmethod, apimethod, ty, self, new),
                   answer))
    IN IF val.ok THEN try_from_value("()", val.val) ELSE val

---------------------------------------------------------------------------
(* download.rs: the lists of handles of a download.                        *)

\* multicall::p::ID
p_ID == CHOOSE o \in p_ops : o.const = "ID"

\* the builder Download::peers invokes
Download_peers_builder(self) ==
    ops_call(p_MultiBuilder_new(self.server, self.sha1_hex), p_ID)

\* mutant: the peers are returned last row first
Download_peers_reversed(self, answer) ==
    LET rows == ops_invoke(Download_peers_builder(self), answer)
    IN IF rows.ok
       THEN Ok([k \in 1..Len(rows.val) |->
                   Peer_new(self, rows.val[Len(rows.val) + 1 - k][1].s)])
       ELSE rows

\* Download::peers, given the transport's answer
Download_peers(self, answer) ==
    LET rows == ops_invoke(Download_peers_builder(self), answer)
    IN IF rows.ok
       THEN Ok([k \in 1..Len(rows.val) |-> Peer_new(self, rows.val[k][1].s)])
       ELSE rows

\* mutant: the range includes its end
Range_inclusive(start, end) ==
    [k \in 1..(IF end >= start THEN end - start + 1 ELSE 0) |-> start + k - 1]

\* the range start..end, as the list it is collected to
Range(start, end) ==
    [k \in 1..(IF end > start THEN end - start ELSE 0) |-> start + k - 1]

\* Download::files, given the transport's answer
Download_files(self, answer) ==
    LET num == prim_getter("d.", "size_files", "i64", self, answer)
    IN IF num.ok
       THEN Ok([k \in DOMAIN Range(0, num.val.i) |->
                   File_new(self, Range(0, num.val.i)[k])])
       ELSE num

\* Download::trackers, given the transport's answer
Download_trackers(self, answer) ==
    LET num == prim_getter("d.", "tracker_size", "i64", self, answer)
    IN IF num.ok
       THEN Ok([k \in DOMAIN Range(0, num.val.i) |->
                   Tracker_new(self, Range(0, num.val.i)[k])])
       ELSE num

---------------------------------------------------------------------------
(* Inputs.                                                                 *)

Servers == {"http://1.2.3.4/RPC2"}
Hashes == {"ABCD"}
Globs == {None, Some("*.iso")}
Views == {"default"}

\* the catalog operations the caller passes to `call`
CallOps ==
    {o \in d_ops \cup f_ops \cup p_ops \cup t_ops :
        \/ o.optype = "DownloadMultiCallOp" /\ o.const \in {"NAME", "RATIO"}
        \/ o.optype = "FileMultiCallOp" /\ o.const \in {"PATH", "SIZE_BYTES"}
        \/ o.optype = "PeerMultiCallOp" /\ o.const \in {"BANNED", "DOWN_RATE"}
        \/ o.optype = "TrackerMultiCallOp" /\ o.const \in {"URL", "GROUP"}}

\* the indices of the file and tracker handles: Download::files and
\* Download::trackers make them from 0 upwards
Indices == 0..MaxIndex

\* the getters the caller uses: (namespace, method, result type, handle)
Getters ==
    { [macro |-> "prim_getter",
       ns |-> "d.", method |-> "name", result |-> "String",
       self |-> Download_from_hash("http://1.2.3.4/RPC2", "ABCD")],
      [macro |-> "prim_getter",
       ns |-> "d.", method |-> "ratio", result |-> "f64",
       self |-> Download_from_hash("http://1.2.3.4/RPC2", "ABCD")],
      [macro |-> "prim_getter",
       ns |-> "p.", method |-> "banned", result |-> "bool",
       self |-> Peer_new(Download_from_hash("http://1.2.3.4/RPC2", "ABCD"),
                         "beef")] }
    \cup { [macro |-> "prim_getter",
            ns |-> "f.", method |-> "size_bytes", result |-> "i64",
            self |-> File_new(Download_from_hash("http://1.2.3.4/RPC2",
                                                 "ABCD"), i)] :
            i \in Indices }
    \cup { [macro |-> "prim_getter",
            ns |-> "t.", method |-> "url", result |-> "String",
            self |-> Tracker_new(Download_from_hash("http://1.2.3.4/RPC2",
                                                    "ABCD"), i)] :
            i \in Indices }

\* the getters whose remote name is not the method's name
NamedGetters ==
    { [macro |-> "prim_getter_named",
       ns |-> "d.", method |-> "down_rate", result |-> "i64",
       apimethod |-> "down.rate",
       self |-> Download_from_hash("http://1.2.3.4/RPC2", "ABCD")],
      [macro |-> "prim_getter_named",
       ns |-> "d.", method |-> "group_name", result |-> "String",
       apimethod |-> "group.name",
       self |-> Download_from_hash("http://1.2.3.4/RPC2", "ABCD")] }

\* the setters the caller uses, each with the new value it is given
Setters ==
    { [macro |-> "prim_setter",
       ns |-> "d.", rmethod |-> "set_directory", apimethod |-> "directory",
       ty |-> "&str", new |-> NativeString("/tmp"),
       self |-> Download_from_hash("http://1.2.3.4/RPC2", "ABCD")],
      [macro |-> "prim_setter",
       ns |-> "d.", rmethod |-> "priority_set", apimethod |-> "priority",
       ty |-> "i64", new |-> I64(3),
       self |-> Download_from_hash("http://1.2.3.4/RPC2", "ABCD")],
      [macro |-> "prim_setter",
       ns |-> "f.", rmethod |-> "set_priority", apimethod |-> "priority",
       ty |-> "i64", new |-> I64(2),
       self |-> File_new(Download_from_hash("http://1.2.3.4/RPC2", "ABCD"),
                         4)],
      [macro |-> "prim_setter",
       ns |-> "p.", rmethod |-> "set_banned", apimethod |-> "banned",
       ty |-> "bool", new |-> NativeBool(TRUE),
       self |-> Peer_new(Download_from_hash("http://1.2.3.4/RPC2", "ABCD"),
                         "beef")] }

\* what the remote side can send: a failure, a scalar, or an array of rows,
\* a row being a scalar or an array of scalars
Scalars == {Value_Int(7), Value_Bool(FALSE), Value_String("a")}
RowScalars == {Value_Int(7), Value_Bool(FALSE)}
XmlRpcErrors == {"fault"}

\* the endpoints Server::new is given
Endpoints ==
    {"http://1.2.3.4/RPC2", "https://1.2.3.4/RPC2", "/tmp/rtorrent.sock",
     "http:/", ""}

\* where execute is called: on the Server, or on a handle made from it
Vias == {"Server", "Download", "Peer"}

\* the requests executed directly
Requests == {[method |-> "system.client_version", args |-> <<>>]}

\* what an HTTP round trip answers
HttpAnswers == {Err("fault"), Ok(Value_Int(0)), Ok(Value_String("a"))}

\* what the local socket does: it fails, or a response is read to its end,
\* arbitrary bytes or headers followed by a body
SocketOutcomes ==
    {Err("io")}
    \cup {Ok(bytes) : bytes \in UNION {[1..n -> {"CR", "LF", "x"}] :
                                          n \in 0..MaxResponseLen}}
    \cup {Ok(headers \o <<"CR", "LF", "CR", "LF">> \o body) :
             headers \in {<<>>, <<"x">>},
             body \in {<<>>, <<"x">>, <<"x", "x">>}}

\* the wire values given to the decodes
WireInts ==
    (-MaxWireInt..MaxWireInt) \cup {7, 1000, 1500, -1500, 2147483647, -2147483647}

WireValues ==
    {Value_Int(n) : n \in WireInts}
    \cup {Value_Int64(n) : n \in WireInts}
    \cup {Value_Bool(TRUE), Value_Bool(FALSE)}
    \cup {Value_String(""), Value_String("a"), Value_String("0")}
    \cup {Value_Nil, Value_Double(3, 2), Value_DateTime("19980717T14:08:55"),
          Value_Base64(<<>>), Value_Struct(<<>>)}
    \cup {Value_Array(<<>>), Value_Array(<<Value_Int(0)>>)}

Types == {"i64", "f64", "bool", "String", "()"}

\* the wire values given to `list`: those, and arrays of two elements
ListValues ==
    WireValues
    \cup {Value_Array(<<Value_Int(1), Value_String("a")>>),
          Value_Array(<<Value_String("a"), Value_Int(1)>>)}

SeqsUpTo(S, n) == UNION {[1..k -> S] : k \in 0..n}

AnswersOf(scalars, maxRows, maxLen) ==
    LET rows == {Value_Array(r) : r \in SeqsUpTo(scalars, maxLen)} \cup scalars
    IN {Err(e) : e \in XmlRpcErrors}
       \cup {Ok(s) : s \in scalars}
       \cup {Ok(Value_Array(rs)) : rs \in SeqsUpTo(rows, maxRows)}

Answers == AnswersOf(RowScalars, MaxRows, MaxRowLen)
\* a failure, a scalar, no row, or one row of at most one value
SmallAnswers == AnswersOf(Scalars, 1, 1)
\* what the remote side can answer to a setter: those, or a void
SetterAnswers ==
    SmallAnswers
    \cup {Ok(Value_Int(0)), Ok(Value_Int64(0)), Ok(Value_Nil),
          Ok(Value_String(""))}

---------------------------------------------------------------------------
(* The state machine.                                                      *)

Init ==
    /\ builder = NoBuilder
    /\ created = None
    /\ called = <<>>
    /\ op = "none"
    /\ request = None
    /\ reply = None
    /\ ret = None
    /\ invokes = 0
    /\ calls = 0
    /\ accessor = None
    /\ instance = None
    /\ wire = None
    /\ heap = <<>>
    /\ threads = <<>>
    /\ conns = <<>>

\* an operation that makes no round trip
NoRoundTrip(name) ==
    /\ op' = name
    /\ request' = None
    /\ reply' = None
    /\ ret' = None
    /\ UNCHANGED <<invokes, calls, accessor, instance, wire, heap, threads,
                   conns>>

d_new(server, view) ==
    /\ builder' = d_MultiBuilder_new(server, view)
    /\ created' = [ctor |-> "d", server |-> server, view |-> view,
                   built |-> builder']
    /\ called' = <<>>
    /\ NoRoundTrip("new")

f_new(server, download_sha1, glob) ==
    /\ builder' = f_MultiBuilder_new(server, download_sha1, glob)
    /\ created' = [ctor |-> "f", server |-> server,
                   download_sha1 |-> download_sha1, glob |-> glob,
                   built |-> builder']
    /\ called' = <<>>
    /\ NoRoundTrip("new")

p_new(server, download_sha1) ==
    /\ builder' = p_MultiBuilder_new(server, download_sha1)
    /\ created' = [ctor |-> "p", server |-> server,
                   download_sha1 |-> download_sha1, built |-> builder']
    /\ called' = <<>>
    /\ NoRoundTrip("new")

t_new(server, download_sha1) ==
    /\ builder' = t_MultiBuilder_new(server, download_sha1)
    /\ created' = [ctor |-> "t", server |-> server,
                   download_sha1 |-> download_sha1, built |-> builder']
    /\ called' = <<>>
    /\ NoRoundTrip("new")

\* builder.call(getter): defined on MultiBuilder .. MultiBuilder<N-1> of the
\* kind, for operations of the kind's catalog type
Call(getter) ==
    /\ builder.optype # "none"
    /\ ops_call_accepts(builder, getter)
    /\ call_defined(builder)
    /\ builder' = ops_call(builder, getter)
    /\ called' = Append(called, getter)
    /\ NoRoundTrip("call")
    /\ UNCHANGED created

\* builder.invoke(): defined on MultiBuilder1 .. MultiBuilder<N>
Invoke(answer) ==
    /\ builder.optype # "none"
    /\ invoke_defined(builder)
    /\ calls < MaxCalls
    /\ op' = "invoke"
    /\ request' = as_request(builder.inner.inner)
    /\ reply' = answer
    /\ ret' = ops_invoke(builder, answer)
    /\ builder' = [builder EXCEPT !.inner.inner = as_request_self(@)]
    /\ invokes' = invokes + 1
    /\ calls' = Server_execute_calls(calls)
    /\ UNCHANGED <<created, called, accessor, instance, wire, heap, threads,
                   conns>>

\* a single-call getter on an entity handle
Getter(g, answer) ==
    /\ calls < MaxCalls
    /\ op' = "accessor"
    /\ request' = prim_getter_request(g.ns, g.method, g.self)
    /\ reply' = answer
    /\ ret' = prim_getter(g.ns, g.method, g.result, g.self, answer)
    /\ calls' = Server_execute_calls(calls)
    /\ accessor' = g
    /\ UNCHANGED <<builder, created, called, invokes, instance, wire, heap,
                   threads, conns>>

\* a single-call getter made with prim_getter_named!
GetterNamed(g, answer) ==
    /\ calls < MaxCalls
    /\ op' = "accessor"
    /\ request' = prim_getter_named_request(g.ns, g.method, g.result,
                                            g.apimethod, g.self)
    /\ reply' = answer
    /\ ret' = prim_getter_named(g.ns, g.method, g.result, g.apimethod, g.self,
                                answer)
    /\ calls' = Server_execute_calls(calls)
    /\ accessor' = g
    /\ UNCHANGED <<builder, created, called, invokes, instance, wire, heap,
                   threads, conns>>

\* a setter on an entity handle
Setter(s, answer) ==
    /\ calls < MaxCalls
    /\ op' = "accessor"
    /\ request' = prim_setter_request(s.ns, s.rmethod, s.apimethod, s.ty,
                                      s.self, s.new)
    /\ reply' = answer
    /\ ret' = prim_setter(s.ns, s.rmethod, s.apimethod, s.ty, s.self, s.new,
                          answer)
    /\ calls' = Server_execute_calls(calls)
    /\ accessor' = s
    /\ UNCHANGED <<builder, created, called, invokes, instance, wire, heap,
                   threads, conns>>

\* Server::new(endpoint)
ServerNew(endpoint) ==
    /\ instance' = [endpoint |-> endpoint, built |-> Server_new(endpoint)]
    /\ op' = "Server::new"
    /\ request' = None
    /\ reply' = None
    /\ ret' = None
    /\ wire' = None
    /\ UNCHANGED <<builder, created, called, invokes, calls, accessor, heap,
                   threads, conns>>

\* execute(request) on the Server, or on a Download or a Peer made from it:
\* Download::execute and Peer::execute pass the request on to the Server
Execute(via, req, io) ==
    /\ instance # None
    /\ calls < MaxCalls
    /\ LET dl == Download_from_hash(instance.built, "ABCD")
           peer == Peer_new(dl, "beef")
       IN /\ ret' = CASE via = "Server" ->
                            Server_execute_on(instance.built, req, io)
                       [] via = "Download" -> Download_execute(dl, req, io)
                       [] via = "Peer" -> Peer_execute(peer, req, io)
          /\ wire' = CASE via = "Server" -> Server_execute_wire(instance.built)
                        [] via = "Download" -> Server_execute_wire(dl.server)
                        [] via = "Peer" ->
                             Server_execute_wire(peer.download.server)
    /\ op' = "execute"
    /\ request' = req
    /\ reply' = io
    /\ calls' = Server_execute_calls(calls)
    /\ accessor' = [macro |-> "execute", via |-> via]
    /\ UNCHANGED <<builder, created, called, invokes, instance, heap, threads,
                   conns>>

\* an execute on a Server of the HTTP endpoint, with every answer
ExecuteHttp(via, req) ==
    /\ instance # None
    /\ instance.built.inner.endpoint.kind = "Http"
    /\ \E answer \in HttpAnswers : Execute(via, req, answer)

\* an execute on a Server of the local-socket endpoint, with everything the
\* socket can do
ExecuteScgi(via, req) ==
    /\ instance # None
    /\ instance.built.inner.endpoint.kind = "Scgi"
    /\ \E sock \in SocketOutcomes : Execute(via, req, sock)

\* download.peers()
Peers(dl, answer) ==
    /\ calls < MaxCalls
    /\ op' = "peers"
    /\ request' = as_request(Download_peers_builder(dl).inner.inner)
    /\ reply' = answer
    /\ ret' = Download_peers(dl, answer)
    /\ calls' = Server_execute_calls(calls)
    /\ accessor' = [macro |-> "peers", self |-> dl]
    /\ UNCHANGED <<builder, created, called, invokes, instance, wire, heap,
                   threads, conns>>

\* download.files()
Files(dl, answer) ==
    /\ calls < MaxCalls
    /\ op' = "files"
    /\ request' = prim_getter_request("d.", "size_files", dl)
    /\ reply' = answer
    /\ ret' = Download_files(dl, answer)
    /\ calls' = Server_execute_calls(calls)
    /\ accessor' = [macro |-> "files", self |-> dl]
    /\ UNCHANGED <<builder, created, called, invokes, instance, wire, heap,
                   threads, conns>>

\* download.trackers()
Trackers(dl, answer) ==
    /\ calls < MaxCalls
    /\ op' = "trackers"
    /\ request' = prim_getter_request("d.", "tracker_size", dl)
    /\ reply' = answer
    /\ ret' = Download_trackers(dl, answer)
    /\ calls' = Server_execute_calls(calls)
    /\ accessor' = [macro |-> "trackers", self |-> dl]
    /\ UNCHANGED <<builder, created, called, invokes, instance, wire, heap,
                   threads, conns>>

\* Threads. Each call of Server::execute opens a connection of its own
\* (call_url, or UnixStream::connect in process_body), writes the request
\* to it and reads the response from it.

\* mutant: the first connection is used again by every call
connect_reuse(open) == 1

\* the connection a call opens, given those opened so far
connect(open) == Len(open) + 1

\* the connections once `req` was written to connection c
write_request(open, c, req) ==
    IF c > Len(open)
    THEN Append(open, [request |-> req, response |-> None])
    ELSE [open EXCEPT ![c].request = req]

\* thread t calls invoke() on the builder at heap[b]
T_invoke(t, b) ==
    /\ threads[t].pc = "idle"
    /\ threads' = [threads EXCEPT ![t].pc = "invoking", ![t].b = b]
    /\ UNCHANGED <<heap, conns>>

\* MultiBuilderInternal::as_request(&self)
T_as_request(t) ==
    /\ threads[t].pc = "invoking"
    /\ threads' = [threads EXCEPT
                      ![t].pc = "requested",
                      ![t].req = as_request(heap[threads[t].b].inner.inner)]
    /\ heap' = [heap EXCEPT ![threads[t].b].inner.inner = as_request_self(@)]
    /\ UNCHANGED conns

\* Server::execute: the request goes out on a connection
T_send(t) ==
    /\ threads[t].pc = "requested"
    /\ LET c == connect(conns)
       IN /\ conns' = write_request(conns, c, threads[t].req)
          /\ threads' = [threads EXCEPT ![t].pc = "sent", ![t].conn = c]
    /\ UNCHANGED heap

\* the remote side answers the request of a connection
Respond(c, answer) ==
    /\ c \in 1..Len(conns)
    /\ conns[c].response = None
    /\ conns' = [conns EXCEPT ![c].response = answer]
    /\ UNCHANGED <<heap, threads>>

\* the response is read from the thread's connection and decoded; invoke
\* returns
T_return(t) ==
    /\ threads[t].pc = "sent"
    /\ conns[threads[t].conn].response # None
    /\ threads' = [threads EXCEPT
                      ![t].pc = "done",
                      ![t].ret = ops_invoke(heap[threads[t].b],
                                            conns[threads[t].conn].response)]
    /\ UNCHANGED <<heap, conns>>

\* <T as TryFromValue>::try_from_value(&val) on its own
Decode(T, val) ==
    /\ op' = "decode"
    /\ request' = None
    /\ reply' = Ok(val)
    /\ ret' = try_from_value(T, val)
    /\ accessor' = [macro |-> "try_from_value", result |-> T]
    /\ UNCHANGED <<builder, created, called, invokes, calls, instance, wire,
                   heap, threads, conns>>

\* value_conversion::list(&val) on its own
DecodeList(val) ==
    /\ op' = "decode"
    /\ request' = None
    /\ reply' = Ok(val)
    /\ ret' = list(val)
    /\ accessor' = [macro |-> "list", result |-> "list"]
    /\ UNCHANGED <<builder, created, called, invokes, calls, instance, wire,
                   heap, threads, conns>>

New ==
    \E server \in Servers, hash \in Hashes :
        \/ \E view \in Views : d_new(server, view)
        \/ \E glob \in Globs : f_new(server, hash, glob)
        \/ p_new(server, hash)
        \/ t_new(server, hash)

\* The builder's life: construction, columns, and any number of invokes.
Next ==
    \/ New
    \/ \E getter \in CallOps : Call(getter)
    \/ \E answer \in SmallAnswers : Invoke(answer)

Spec == Init /\ [][Next]_vars

\* One round trip per behaviour, with every answer the bounds allow, on a
\* builder of no more columns than the longest row the remote side sends.
NewOnce == calls = 0 /\ New

CallOnce ==
    /\ calls = 0
    /\ builder.optype # "none"
    /\ Arity(builder) < MaxRowLen
    /\ \E getter \in CallOps : Call(getter)

InvokeOnce == calls = 0 /\ \E answer \in Answers : Invoke(answer)

GetterOnce ==
    calls = 0 /\ \E g \in Getters, answer \in SmallAnswers : Getter(g, answer)

GetterNamedOnce ==
    /\ calls = 0
    /\ \E g \in NamedGetters, answer \in SmallAnswers : GetterNamed(g, answer)

SetterOnce ==
    calls = 0 /\ \E s \in Setters, answer \in SetterAnswers : Setter(s, answer)

\* a decode reads neither the builder nor the transport: it is taken on its
\* own, before a builder is made
DecodeOnce ==
    /\ calls = 0
    /\ builder = NoBuilder
    /\ \E T \in Types, val \in WireValues : Decode(T, val)

ListOnce ==
    /\ calls = 0
    /\ builder = NoBuilder
    /\ \E val \in ListValues : DecodeList(val)

NextOnce ==
    \/ NewOnce
    \/ CallOnce
    \/ InvokeOnce
    \/ GetterOnce
    \/ GetterNamedOnce
    \/ SetterOnce
    \/ DecodeOnce
    \/ ListOnce

SpecOnce == Init /\ [][NextOnce]_vars

\* The scalar codec alone: every decode of every wire value.
NextCodec == \E T \in Types, val \in WireValues : Decode(T, val)

SpecCodec == Init /\ [][NextCodec]_vars

\* The transports: a Server made for an endpoint, and requests executed on
\* it and on the handles made from it.
NextTransport ==
    \/ \E endpoint \in Endpoints : ServerNew(endpoint)
    \/ \E via \in Vias, req \in Requests : ExecuteHttp(via, req)
    \/ \E via \in Vias, req \in Requests : ExecuteScgi(via, req)

SpecTransport == Init /\ [][NextTransport]_vars

\* The lists of handles of a download, one call per behaviour.
Downloads ==
    {Download_from_hash(server, hash) :
        server \in Servers, hash \in Hashes \cup {"EF01"}}

\* the peer ids and the other values a row of the peer multicall can hold
PeerScalars == {Value_String("a"), Value_String("b"), Value_Int(7)}

PeerAnswers == AnswersOf(PeerScalars, MaxRows, MaxRowLen)

\* what the remote side can answer to a count read
CountAnswers ==
    {Err(e) : e \in XmlRpcErrors}
    \cup {Ok(Value_Int(n)) : n \in (0 - 2)..MaxIndex}
    \cup {Ok(Value_Int64(n)) : n \in (0 - 2)..MaxIndex}
    \cup {Ok(Value_String("3")), Ok(Value_Nil), Ok(Value_Array(<<>>))}

PeersOnce ==
    calls = 0 /\ \E dl \in Downloads, answer \in PeerAnswers : Peers(dl, answer)

FilesOnce ==
    calls = 0 /\ \E dl \in Downloads, answer \in CountAnswers : Files(dl, answer)

TrackersOnce ==
    /\ calls = 0
    /\ \E dl \in Downloads, answer \in CountAnswers : Trackers(dl, answer)

NextLists == PeersOnce \/ FilesOnce \/ TrackersOnce

SpecLists == Init /\ [][NextLists]_vars

\* Threads that invoke builders made before they start: two builders, which
\* any thread may pick.
SharedBuilders ==
    <<ops_call(p_MultiBuilder_new("http://1.2.3.4/RPC2", "ABCD"),
               CHOOSE o \in p_ops : o.const = "DOWN_RATE"),
      ops_call(t_MultiBuilder_new("http://1.2.3.4/RPC2", "ABCD"),
               CHOOSE o \in t_ops : o.const = "URL")>>

Threads == 1..MaxThreads

\* what the remote side answers to a thread's request
ThreadAnswers ==
    {Err("fault"),
     Ok(Value_Array(<<>>)),
     Ok(Value_Array(<<Value_Array(<<Value_Int(7)>>)>>)),
     Ok(Value_Array(<<Value_Array(<<Value_String("a")>>)>>))}

InitThreads ==
    /\ Init!1 /\ Init!2 /\ Init!3 /\ Init!4 /\ Init!5 /\ Init!6 /\ Init!7
    /\ Init!8 /\ Init!9 /\ Init!10 /\ Init!11 /\ Init!12
    /\ heap = SharedBuilders
    /\ threads = [t \in Threads |->
                     [pc |-> "idle", b |-> 0, req |-> None, conn |-> 0,
                      ret |-> None]]
    /\ conns = <<>>

ThreadStep(t) ==
    /\ \/ \E b \in 1..Len(heap) : T_invoke(t, b)
       \/ T_as_request(t)
       \/ T_send(t)
       \/ T_return(t)
    /\ UNCHANGED <<builder, created, called, op, request, reply, ret, invokes,
                   calls, accessor, instance, wire>>

RemoteStep ==
    /\ \E c \in 1..Len(conns), answer \in ThreadAnswers : Respond(c, answer)
    /\ UNCHANGED <<builder, created, called, op, request, reply, ret, invokes,
                   calls, accessor, instance, wire>>

NextThreads == (\E t \in Threads : ThreadStep(t)) \/ RemoteStep

SpecThreads == InitThreads /\ [][NextThreads]_vars

---------------------------------------------------------------------------
(* Properties.                                                             *)

\* the column arguments the operations passed to `call` stand for, in call
\* order
ColumnsOf(ops) == [i \in 1..Len(ops) |-> Value_String(ops[i].name \o "=")]

\* the arguments of a request after the target and the filter
ColumnArgs(req) == SubSeq(req.args, 3, Len(req.args))

\* C1: after k operations were appended with `call` to a fresh builder, the
\* builder holds exactly k columns (k types and k column arguments), and the
\* column arguments it holds, and those of the request an invoke emits, are
\* the operations' names followed by "=", in the order of the calls.
C1_ColumnsInCallOrder ==
    builder.optype # "none" =>
        /\ Arity(builder) = Len(called)
        /\ builder.inner.inner.args = ColumnsOf(called)
        /\ ColumnArgs(as_request(builder.inner.inner)) = ColumnsOf(called)
        /\ op = "invoke" => ColumnArgs(request) = ColumnsOf(called)

\* C1 witness: a file builder filled to its ceiling with two different
\* operations first, and invoked.
C1_Witness ==
    /\ op = "invoke"
    /\ builder.optype = "FileMultiCallOp"
    /\ Len(called) = f_MaxArity
    /\ called[1] # called[2]

\* C2: the request an invoke emits on a builder of arity k has k + 2
\* arguments: the target key, the filter key, then the k columns; its
\* procedure is the one the builder was constructed with.
C2_RequestShape ==
    op = "invoke" =>
        /\ Len(request.args) = Arity(builder) + 2
        /\ request.args[1] = created.built.inner.inner.call_target
        /\ request.args[2] = created.built.inner.inner.call_filter
        /\ \A i \in 1..Arity(builder) :
              request.args[i + 2] = builder.inner.inner.args[i]
        /\ request.method = created.built.inner.inner.multicall

\* C2 witness: an invoke of a two-column builder with a glob filter.
C2_Witness ==
    /\ op = "invoke"
    /\ Arity(builder) = 2
    /\ request.args[1] = Value_String("ABCD")
    /\ request.args[2] = Value_String("*.iso")
    /\ request.args[3] # request.args[4]

\* C3: every invoke makes exactly one round trip, whether it fails or not:
\* after n invokes the transport was called n times.
C3_OneRoundTripPerInvoke == calls = invokes

\* C3 witness: a second invoke, which failed.
C3_Witness == op = "invoke" /\ invokes = 2 /\ ~ret.ok

\* the rows of the response of the last invoke, when it is an array
Rows == reply.val.a

RespondedArray == op = "invoke" /\ reply.ok /\ reply.val.tag = "Array"

\* value i of a row is decodable by the type of the i-th call
Decodable(i, row) == try_from_value(called[i].res, row[i]).ok

\* every row is an array of exactly k values, each decodable by its column
RowsWellFormed ==
    /\ RespondedArray
    /\ \A j \in 1..Len(Rows) :
          /\ Rows[j].tag = "Array"
          /\ Len(Rows[j].a) = Len(called)
          /\ \A i \in 1..Len(called) : Decodable(i, Rows[j].a)

\* C4: when the transport returns n rows, each an array of exactly k values
\* decodable by their columns' types, invoke returns n tuples in the order
\* of the rows, component i of tuple j being the decode of value i of row j
\* under the type of the i-th call.
C4_RowsDecodedInOrder ==
    RowsWellFormed =>
        /\ ret.ok
        /\ Len(ret.val) = Len(Rows)
        /\ \A j \in 1..Len(Rows) :
              /\ Len(ret.val[j]) = Len(called)
              /\ \A i \in 1..Len(called) :
                    ret.val[j][i] =
                        try_from_value(called[i].res, Rows[j].a[i]).val

\* C4 witness: two different rows of two values under two columns of
\* different types.
C4_Witness ==
    /\ RowsWellFormed
    /\ Len(called) = 2
    /\ called[1].res # called[2].res
    /\ Len(Rows) = 2
    /\ Rows[1] # Rows[2]

\* C5: when the transport returns an empty array, invoke returns an empty
\* sequence of rows, whatever the builder's arity.
C5_EmptyArrayIsNoRows ==
    (RespondedArray /\ Len(Rows) = 0) => (ret.ok /\ ret.val = <<>>)

\* C5 witness: an empty array answered to a peer builder at its ceiling.
C5_Witness ==
    /\ RespondedArray
    /\ Len(Rows) = 0
    /\ builder.optype = "PeerMultiCallOp"
    /\ Arity(builder) = p_MaxArity

\* row j is not an array, or is an array of another length than the arity
BadRow(j) ==
    \/ Rows[j].tag # "Array"
    \/ Len(Rows[j].a) # Arity(builder)

\* C6: if any row is not an array, or is an array whose length is not the
\* builder's arity, invoke returns a structural error, and so no rows.
C6_BadRowIsStructuralError ==
    (RespondedArray /\ \E j \in 1..Len(Rows) : BadRow(j)) =>
        (~ret.ok /\ ret.err.variant = "UnexpectedStructure")

\* C6 witness: under one column, a good row followed by a row of two values.
C6_Witness ==
    /\ RespondedArray
    /\ Arity(builder) = 1
    /\ Len(Rows) = 2
    /\ ~BadRow(1)
    /\ Decodable(1, Rows[1].a)
    /\ Rows[2].tag = "Array"
    /\ Len(Rows[2].a) = 2

\* row j is an array that holds, under one of the columns, a value the
\* column's type does not decode
UndecodableIn(j) ==
    /\ Rows[j].tag = "Array"
    /\ \E i \in 1..Len(called) :
          i <= Len(Rows[j].a) /\ ~Decodable(i, Rows[j].a)

\* C7: if any value of any row cannot be decoded by its column's type,
\* invoke returns an error and none of the rows.
C7_UndecodableValueIsError ==
    (RespondedArray /\ \E j \in 1..Len(Rows) : UndecodableIn(j)) => ~ret.ok

\* C7 witness: a row that decodes, then a row of the right length whose
\* second value does not decode.
C7_Witness ==
    /\ RespondedArray
    /\ Len(called) = 2
    /\ Len(Rows) = 2
    /\ ~BadRow(1) /\ ~UndecodableIn(1)
    /\ ~BadRow(2)
    /\ Decodable(1, Rows[2].a) /\ ~Decodable(2, Rows[2].a)

\* C8: when the transport reports a failure, invoke and the getters return
\* it as Error::XmlRpc, and the transport was called once.
C8_TransportFailureIsXmlRpc ==
    (op \in {"invoke", "accessor"} /\ ~reply.ok) =>
        /\ ~ret.ok
        /\ ret.err = XmlRpc(reply.err)
        /\ calls = 1

\* C8 witness: a getter whose round trip failed.
C8_Witness == op = "accessor" /\ ~reply.ok /\ calls = 1

\* C9: an invoke leaves the builder as it was; an invoke that follows an
\* invoke of the same builder emits the same request, and returns the same
\* value if it receives the same answer.
C9_InvokeKeepsBuilder ==
    [][invokes' = invokes + 1 =>
          /\ builder' = builder
          /\ op = "invoke" =>
                /\ request' = request
                /\ reply' = reply => ret' = ret]_vars

\* C9 witness: a second invoke of a builder, which returned a row.
C9_Witness == op = "invoke" /\ invokes = 2 /\ ret.ok /\ Len(ret.val) = 1

\* C10: a builder emits the multicall of the kind it was constructed for,
\* with the download hash as target, and as filter the glob of a file
\* builder ("" without a glob) or "" for a peer or tracker builder.
C10_KindFixesProcedureAndScope ==
    (op = "invoke" /\ created.ctor \in {"f", "p", "t"}) =>
        /\ request.args[1] = Value_String(created.download_sha1)
        /\ created.ctor = "f" =>
              /\ request.method = "f.multicall"
              /\ request.args[2] =
                    Value_String(IF created.glob.some THEN created.glob.val
                                 ELSE "")
        /\ created.ctor = "p" =>
              /\ request.method = "p.multicall"
              /\ request.args[2] = Value_String("")
        /\ created.ctor = "t" =>
              /\ request.method = "t.multicall"
              /\ request.args[2] = Value_String("")

\* C10 witness: an invoke of a tracker builder.
C10_Witness ==
    /\ op = "invoke"
    /\ created.ctor = "t"
    /\ builder.optype = "TrackerMultiCallOp"

\* the catalog and the namespace of an entity kind
Catalog(optype) ==
    CASE optype = "DownloadMultiCallOp" -> d_ops
      [] optype = "FileMultiCallOp" -> f_ops
      [] optype = "PeerMultiCallOp" -> p_ops
      [] optype = "TrackerMultiCallOp" -> t_ops

Namespace(optype) ==
    CASE optype = "DownloadMultiCallOp" -> "d."
      [] optype = "FileMultiCallOp" -> "f."
      [] optype = "PeerMultiCallOp" -> "p."
      [] optype = "TrackerMultiCallOp" -> "t."

StartsWith(s, prefix) ==
    Len(s) >= Len(prefix) /\ SubSeq(s, 1, Len(prefix)) = prefix

\* C11: every operation of a kind's catalog is named in the kind's
\* namespace ("f.", "p.", "t."; SIZE_BYTES of the file catalog is
\* "f.size_bytes"), so every column of the request an invoke emits starts
\* with the namespace of the builder's kind.
C11_AccessorNamesInNamespace ==
    op = "invoke" =>
        /\ \A o \in Catalog(builder.optype) :
              StartsWith(o.name, Namespace(builder.optype))
        /\ \A o \in f_ops : o.const = "SIZE_BYTES" => o.name = "f.size_bytes"
        /\ \A i \in 1..Len(ColumnArgs(request)) :
              StartsWith(ColumnArgs(request)[i].s, Namespace(builder.optype))

\* C12: `call` accepts only an operation whose kind is the builder's kind,
\* so every operation appended to a builder, and every column the builder
\* holds, belongs to the catalog of the builder's kind.
C12_CallAcceptsOwnKindOnly ==
    builder.optype # "none" =>
        \A i \in 1..Len(called) :
            /\ called[i].optype = builder.optype
            /\ called[i] \in Catalog(builder.optype)
            /\ \E o \in Catalog(builder.optype) :
                  builder.inner.inner.args[i] = Value_String(o.name \o "=")

\* C12 witness: a tracker builder to which two operations were appended.
C12_Witness ==
    /\ op = "call"
    /\ builder.optype = "TrackerMultiCallOp"
    /\ Len(called) = 2

\* the steps `call` and `invoke` of the caller, with any argument
CallAny == \E getter \in CallOps : Call(getter)
InvokeAny == \E answer \in SmallAnswers : Invoke(answer)

\* C13: with N the ceiling of the builder's kind (file 5, peer 6, tracker 4,
\* download 9, never below 4), a builder has between 0 and N columns, `call`
\* can be taken exactly at arity 0 .. N-1 and `invoke` exactly at arity
\* 1 .. N, and a request that was emitted has between 1 and N columns.
C13_ArityWithinCeiling ==
    builder.optype # "none" =>
        LET N == MaxArity(builder.optype)
        IN /\ N = CASE builder.optype = "FileMultiCallOp" -> 5
                    [] builder.optype = "PeerMultiCallOp" -> 6
                    [] builder.optype = "TrackerMultiCallOp" -> 4
                    [] builder.optype = "DownloadMultiCallOp" -> 9
           /\ N >= 4
           /\ Arity(builder) \in 0..N
           /\ call_defined(builder) <=> Arity(builder) \in 0..(N - 1)
           /\ invoke_defined(builder) <=> Arity(builder) \in 1..N
           /\ (ENABLED CallAny) <=> Arity(builder) \in 0..(N - 1)
           /\ calls < MaxCalls =>
                 ((ENABLED InvokeAny) <=> Arity(builder) \in 1..N)
           /\ op = "invoke" => Len(ColumnArgs(request)) \in 1..N

\* C13 witness: a download builder at its ceiling of nine columns, invoked.
C13_Witness ==
    /\ op = "invoke"
    /\ builder.optype = "DownloadMultiCallOp"
    /\ Arity(builder) = d_MaxArity
    /\ Len(ColumnArgs(request)) = d_MaxArity
    /\ ~ENABLED CallAny

\* the characters of s from position i on
Tail_from(s, i) == SubSeq(s, i, Len(s))

\* s is the decimal writing of the natural number n: digits only, no
\* leading zero, and the digits' value is n
RECURSIVE DecimalValue(_)
DecimalValue(s) ==
    IF Len(s) = 0 THEN 0
    ELSE LET last == SubSeq(s, Len(s), Len(s))
             d == CHOOSE k \in 0..9 : SubSeq("0123456789", k + 1, k + 1) = last
         IN 10 * DecimalValue(SubSeq(s, 1, Len(s) - 1)) + d

IsDecimalOf(s, n) ==
    /\ Len(s) >= 1
    /\ \A i \in 1..Len(s) :
          \E k \in 0..9 : SubSeq("0123456789", k + 1, k + 1) = SubSeq(s, i, i)
    /\ Len(s) > 1 => SubSeq(s, 1, 1) # "0"
    /\ DecimalValue(s) = n

\* key is hash, then ":" and the letter of the kind, then rest
KeyParts(key, hash, letter) ==
    /\ StartsWith(key, hash \o ":" \o letter)
    /\ Len(key) > Len(hash) + 2

\* C14: the addressing key sent for a handle is the download's hash for a
\* download, "<hash>:p<peerhash>" for a peer, and "<hash>:f<index>" or
\* "<hash>:t<index>" for a file or a tracker, the index in decimal and
\* nothing else added.
C14_AddressingKey ==
    op = "accessor" =>
        LET self == accessor.self
            key == request.args[1]
        IN /\ key.tag = "String"
           /\ self.entity = "Download" => key.s = self.sha1_hex
           /\ self.entity = "Peer" =>
                 key.s = self.download.sha1_hex \o ":p" \o self.peer_sha1_hex
           /\ self.entity = "File" =>
                 /\ KeyParts(key.s, self.download.sha1_hex, "f")
                 /\ IsDecimalOf(Tail_from(key.s,
                                          Len(self.download.sha1_hex) + 3),
                                self.index)
                 /\ self.index = 4 => key.s = "ABCD:f4"
           /\ self.entity = "Tracker" =>
                 /\ KeyParts(key.s, self.download.sha1_hex, "t")
                 /\ IsDecimalOf(Tail_from(key.s,
                                          Len(self.download.sha1_hex) + 3),
                                self.index)
                 /\ self.index = 2 => key.s = "ABCD:t2"

\* C14 witness: an accessor was called on a tracker of a two-digit index.
C14_Witness ==
    /\ op = "accessor"
    /\ accessor.self.entity = "Tracker"
    /\ accessor.self.index = 10
    /\ request.args[1] = Value_String("ABCD:t10")

\* the remote name of an accessor: the method's own name, or the name
\* given to prim_getter_named!
AccessorName(a) ==
    IF a.macro = "prim_getter_named" THEN a.apimethod ELSE a.method

IsGetter(a) == a # None /\ a.macro \in {"prim_getter", "prim_getter_named"}

\* C15: a getter on an entity handle makes exactly one round trip, whose
\* procedure is the namespace followed by the accessor's name and whose only
\* argument is the handle's addressing key, and returns the decode of the
\* response under the getter's declared type (the transport's failure when
\* there is no response).
C15_GetterIsOneTypedRoundTrip ==
    [][(op' = "accessor" /\ calls' # calls /\ IsGetter(accessor')) =>
          /\ calls' = calls + 1
          /\ request'.method = accessor'.ns \o AccessorName(accessor')
          /\ request'.args = <<Value_from(accessor'.self)>>
          /\ reply'.ok =>
                ret' = CASE accessor'.result = "i64" ->
                                i64_try_from_value(reply'.val)
                         [] accessor'.result = "f64" ->
                                f64_try_from_value(reply'.val)
                         [] accessor'.result = "bool" ->
                                bool_try_from_value(reply'.val)
                         [] accessor'.result = "String" ->
                                String_try_from_value(reply'.val)
          /\ ~reply'.ok => ret' = Err(XmlRpc(reply'.err))]_vars

\* C15 witness: d.down.rate was read from a download and answered 7.
C15_Witness ==
    /\ op = "accessor"
    /\ IsGetter(accessor)
    /\ request = [method |-> "d.down.rate", args |-> <<Value_String("ABCD")>>]
    /\ calls = 1
    /\ ret = Ok(I64(7))

\* the wire value w carries the native value v the caller passed
Carries(w, v) ==
    CASE v.ty = "i64" -> w.tag \in {"Int", "Int64"} /\ w.i = v.i
      [] v.ty = "bool" -> w.tag = "Bool" /\ w.b = v.b
      [] v.ty = "String" -> w.tag = "String" /\ w.s = v.s

\* C16: a setter on an entity handle makes one request whose first argument
\* is the handle's addressing key and whose second argument is the new value
\* the caller passed, and succeeds only if the response decodes as void.
C16_SetterSendsKeyAndValue ==
    (op = "accessor" /\ accessor.macro = "prim_setter") =>
        /\ calls = 1
        /\ Len(request.args) = 2
        /\ request.args[1] = Value_from(accessor.self)
        /\ Carries(request.args[2], accessor.new)
        /\ ret.ok => (reply.ok /\ unit_try_from_value(reply.val).ok)

\* the last operation decoded a wire value to the type T
Decoded(T) == op = "decode" /\ accessor.result = T

IsStructuralError(r) == ~r.ok /\ r.err.variant = "UnexpectedStructure"

\* C17: the boolean decode maps a wire integer of either width to true
\* exactly when it is not zero, a wire boolean to itself, and every other
\* wire shape to a structural error.
C17_BoolDecode ==
    Decoded("bool") =>
        LET v == reply.val
        IN /\ v.tag \in {"Int", "Int64"} =>
                 /\ ret.ok
                 /\ ret.val.ty = "bool"
                 /\ ret.val.b <=> v.i # 0
           /\ v.tag = "Bool" => ret.ok /\ ret.val.ty = "bool" /\ ret.val.b = v.b
           /\ v.tag \notin {"Int", "Int64", "Bool"} => IsStructuralError(ret)

\* C17 witness: the 64-bit wire integer 7 was decoded to true.
C17_Witness ==
    /\ Decoded("bool")
    /\ reply.val = Value_Int64(7)
    /\ ret = Ok(NativeBool(TRUE))

\* a wire integer, in the 32-bit or in the 64-bit variant
IsWireInteger(v) == v.tag \in {"Int", "Int64"}

\* C18: the void decode succeeds for a wire integer of value 0 and for nil,
\* and returns a structural error for every other wire value, a nonzero
\* integer and the empty string among them.
C18_VoidDecode ==
    Decoded("()") =>
        LET v == reply.val
        IN IF (IsWireInteger(v) /\ v.i = 0) \/ v.tag = "Nil"
           THEN ret = Ok(Unit)
           ELSE IsStructuralError(ret)

RECURSIVE GCD(_, _)
GCD(a, b) == IF b = 0 THEN a ELSE GCD(b, a % b)

\* the quotient a / b (b > 0) in lowest terms
Lowest(a, b) ==
    LET g == GCD(IF a < 0 THEN 0 - a ELSE a, b)
    IN <<a \div g, b \div g>>

\* the f64 x is the quotient a / b
F64Is(x, a, b) == x.ty = "f64" /\ Lowest(x.num, x.den) = Lowest(a, b)

C20_IntegerDecode ==
    Decoded("i64") =>
        LET v == reply.val
        IN /\ IsWireInteger(v) =>
                 /\ ret.ok
                 /\ ret.val.ty = "i64"
                 /\ ret.val.i = v.i
                 /\ v.i < 0 => ret.val.i < 0
           /\ ~IsWireInteger(v) => IsStructuralError(ret)
           /\ v.tag = "Bool" => ~ret.ok

\* C20 witness: the negative 32-bit wire integer -1500 was decoded.
C20_Witness ==
    /\ Decoded("i64")
    /\ reply.val = Value_Int(-1500)
    /\ ret = Ok(I64(-1500))

\* C21: the array decode returns the elements of a wire array, unchanged
\* and in order, and a structural error for any other wire value; so invoke
\* returns a structural error, and no rows, when the response is not an
\* array.
C21_ArrayDecode ==
    /\ Decoded("list") =>
          IF reply.val.tag = "Array"
          THEN /\ ret.ok
               /\ Len(ret.val) = Len(reply.val.a)
               /\ \A i \in 1..Len(ret.val) : ret.val[i] = reply.val.a[i]
          ELSE IsStructuralError(ret)
    /\ (op = "invoke" /\ reply.ok /\ reply.val.tag # "Array") =>
          IsStructuralError(ret)

\* C21 witness: an invoke of a one-column builder was answered the bare
\* integer 7.
C21_Witness ==
    /\ op = "invoke"
    /\ Arity(builder) = 1
    /\ reply = Ok(Value_Int(7))
    /\ IsStructuralError(ret)

\* the text s holds the text sub
Contains(s, sub) ==
    \E i \in 1..(Len(s) - Len(sub) + 1) : SubSeq(s, i, i + Len(sub) - 1) = sub

\* the types a decode says it expected
ExpectedTypes ==
    {"integer", "bool or integer type", "string", "int(0) or nil", "array"}

\* C22: every structural error of a scalar decode, of the array decode or of
\* invoke's row-arity check carries the wire value that was received and
\* what was expected: the expected type, or for a row the expected arity.
C22_StructuralErrorCarriesBoth ==
    (op \in {"decode", "invoke", "accessor"} /\ IsStructuralError(ret)) =>
        /\ "tag" \in DOMAIN ret.err.got
        /\ \/ ret.err.expected \in ExpectedTypes
           \/ /\ op = "invoke"
              /\ Contains(ret.err.expected, Display_u(Arity(builder)))

\* C23: every operation ends by returning a success value or one error
\* value: no response of the remote side, one from the local socket without
\* the blank line that ends its headers among them, makes the call panic.
C23_EveryCallReturns ==
    op \in {"invoke", "accessor", "execute"} => (~IsPanic(ret) /\ ret.ok \in BOOLEAN)

\* thread t has emitted its request
Emitted(t) == threads[t].pc \in {"sent", "done"}

\* C24: invokes made by several threads at the same time, on the same
\* builder or on different ones, are independent: in every interleaving
\* each invoke emits the request of its own builder on a connection no
\* other invoke uses, returns the decode of the response made on that
\* connection, and leaves every builder as it was.
C24_ConcurrentInvokesIndependent ==
    /\ heap = SharedBuilders
    /\ \A t \in DOMAIN threads :
          /\ Emitted(t) =>
                /\ conns[threads[t].conn].request =
                      as_request(SharedBuilders[threads[t].b].inner.inner)
                /\ \A u \in DOMAIN threads :
                      (u # t /\ Emitted(u)) => threads[u].conn # threads[t].conn
          /\ threads[t].pc = "done" =>
                threads[t].ret =
                    ops_invoke(SharedBuilders[threads[t].b],
                               conns[threads[t].conn].response)

\* C24 witness: two threads invoked the same builder at the same time, the
\* second to send returned first, and they were answered differently.
C24_Witness ==
    /\ threads # <<>>
    /\ threads[1].pc = "done" /\ threads[2].pc = "done"
    /\ threads[1].b = threads[2].b
    /\ threads[1].conn = 2 /\ threads[2].conn = 1
    /\ threads[1].ret # threads[2].ret
    /\ threads[1].ret.ok /\ threads[2].ret.ok

\* s is t with exactly one more element at the end
ExtendsByOne(s, t) == Len(s) = Len(t) + 1 /\ SubSeq(s, 1, Len(t)) = t

\* C25: call changes nothing but the column list: the builder call returns
\* has the server, the procedure name, the call-target and the call-filter
\* of the builder it was called on, and its column list (and its list of
\* column types) is the previous one, unchanged as a prefix, with exactly
\* one new element at the end.
C25_CallChangesOnlyColumns ==
    [][CallAny =>
          LET old == builder.inner.inner
              new == builder'.inner.inner
          IN /\ builder'.optype = builder.optype
             /\ new.server = old.server
             /\ new.multicall = old.multicall
             /\ new.call_target = old.call_target
             /\ new.call_filter = old.call_filter
             /\ ExtendsByOne(new.args, old.args)
             /\ ExtendsByOne(builder'.inner.tys, builder.inner.tys)]_vars

\* C25 witness: a second column was added to a file builder made with a
\* glob, after a first, different one.
C25_Witness ==
    /\ op = "call"
    /\ builder.optype = "FileMultiCallOp"
    /\ builder.inner.inner.call_filter = Value_String("*.iso")
    /\ Len(builder.inner.inner.args) = 2
    /\ builder.inner.inner.args[1] # builder.inner.inner.args[2]

\* row j stops the decode: it is not an array, has another length than the
\* arity, or holds a value its column's type does not decode
Offending(j) ==
    \/ BadRow(j)
    \/ \E i \in 1..Arity(builder) : ~Decodable(i, Rows[j].a)

\* the error row j gives on its own: that of the array check, else that of
\* the arity check, else that of its leftmost undecodable column
RowError(j) ==
    IF Rows[j].tag # "Array"
    THEN Err(UnexpectedStructure(Rows[j], "array"))
    ELSE IF Len(Rows[j].a) # Arity(builder)
    THEN Err(UnexpectedStructure(Rows[j], "row missing columns"))
    ELSE LET i == CHOOSE i \in 1..Arity(builder) :
                      /\ ~Decodable(i, Rows[j].a)
                      /\ \A h \in 1..(i - 1) : Decodable(h, Rows[j].a)
         IN try_from_value(called[i].res, Rows[j].a[i])

\* C26: the error invoke returns is that of the first offending row in the
\* order the rows were returned; within the row the arity check comes
\* before any column decode, so a row of wrong length yields the row-arity
\* error even if one of its values is undecodable, and the columns are
\* decoded left to right, so of several undecodable columns the leftmost
\* one's error is returned.
C26_FirstErrorInOrder ==
    RespondedArray =>
        \A j \in 1..Len(Rows) :
            (Offending(j) /\ \A h \in 1..(j - 1) : ~Offending(h)) =>
                ret = RowError(j)

\* C26 witness: under two columns, a first row in which neither value
\* decodes, with two different errors, and a second row of the wrong
\* length.
C26_Witness ==
    /\ RespondedArray
    /\ Arity(builder) = 2
    /\ Len(Rows) = 2
    /\ ~BadRow(1)
    /\ ~Decodable(1, Rows[1].a) /\ ~Decodable(2, Rows[1].a)
    /\ try_from_value(called[1].res, Rows[1].a[1]) #
          try_from_value(called[2].res, Rows[1].a[2])
    /\ BadRow(2)
    /\ ret = try_from_value(called[1].res, Rows[1].a[1])

\* the download a list of handles was asked of
Asked == accessor.self

\* the rows of the answer are arrays of exactly one string each
PeerRowsWellFormed ==
    /\ reply.ok
    /\ reply.val.tag = "Array"
    /\ \A j \in 1..Len(Rows) :
          /\ Rows[j].tag = "Array"
          /\ Len(Rows[j].a) = 1
          /\ Rows[j].a[1].tag = "String"

\* C27: Download::peers makes exactly one round trip, a peer multicall
\* whose target is the download's hash and whose only column is "p.id=",
\* and returns one Peer per returned row, in row order, each addressed as
\* "<download hash>:p<returned id>"; on a transport or structural error it
\* returns the error and no handles.
C27_PeersOfDownload ==
    op = "peers" =>
        /\ calls = 1
        /\ request = [method |-> "p.multicall",
                      args |-> <<Value_String(Asked.sha1_hex),
                                 Value_String(""), Value_String("p.id=")>>]
        /\ PeerRowsWellFormed =>
              /\ ret.ok
              /\ Len(ret.val) = Len(Rows)
              /\ \A j \in 1..Len(Rows) :
                    /\ ret.val[j].entity = "Peer"
                    /\ ret.val[j].download = Asked
                    /\ Value_from(ret.val[j]) =
                          Value_String(Asked.sha1_hex \o ":p"
                                       \o Rows[j].a[1].s)
        /\ ~PeerRowsWellFormed => ~ret.ok
        /\ ~reply.ok => ret = Err(XmlRpc(reply.err))
        /\ (reply.ok /\ ~PeerRowsWellFormed) => IsStructuralError(ret)

\* C27 witness: two rows with different ids came back and two peers were
\* returned.
C27_Witness ==
    /\ op = "peers"
    /\ PeerRowsWellFormed
    /\ Len(Rows) = 2
    /\ Rows[1] # Rows[2]
    /\ ret.ok /\ Len(ret.val) = 2

\* the count the answer holds, when it holds one
CountRead == reply.ok /\ IsWireInteger(reply.val)

\* C28: Download::files (Download::trackers) makes exactly one round trip,
\* the read of d.size_files (d.tracker_size) on the download, and for a
\* count n returns max(n, 0) handles of the download whose indices are
\* 0 .. n-1 in ascending order; a zero or negative count gives the empty
\* list and no error, and a failed count read gives the error and no
\* handles.
C28_FilesAndTrackersOfDownload ==
    op \in {"files", "trackers"} =>
        /\ calls = 1
        /\ request = [method |-> IF op = "files" THEN "d.size_files"
                                 ELSE "d.tracker_size",
                      args |-> <<Value_String(Asked.sha1_hex)>>]
        /\ CountRead =>
              /\ ret.ok
              /\ Len(ret.val) = IF reply.val.i > 0 THEN reply.val.i ELSE 0
              /\ \A k \in 1..Len(ret.val) :
                    /\ ret.val[k].index = k - 1
                    /\ ret.val[k].download = Asked
                    /\ ret.val[k].entity =
                          IF op = "files" THEN "File" ELSE "Tracker"
        /\ ~reply.ok => ret = Err(XmlRpc(reply.err))
        /\ (reply.ok /\ ~CountRead) => IsStructuralError(ret)

\* C28 witness: a count of three trackers was read and three handles were
\* returned.
C28_Witness ==
    /\ op = "trackers"
    /\ CountRead
    /\ reply.val.i = 3
    /\ ret.ok /\ Len(ret.val) = 3

\* C29: the void decode agrees with the integer decode on zero: every wire
\* value the integer decode accepts with the result 0, in the 32-bit or in
\* the 64-bit variant, is accepted by the void decode.
C29_VoidAgreesWithIntegerOnZero ==
    (Decoded("()") /\ i64_try_from_value(reply.val) = Ok(I64(0))) => ret.ok

\* the transport and the address the endpoint string stands for
ChosenFor(endpoint) ==
    [transport |-> IF StartsWith(endpoint, "http://") THEN "call_url"
                   ELSE "call",
     address |-> endpoint]

\* C30: Server::new chooses the transport from the endpoint string alone,
\* HTTP if and only if the string starts with "http://" and the local
\* socket for every other string, one that starts with "https://" among
\* them; every later call made through the Server, or through a handle made
\* from it, uses that transport and that endpoint.
C30_TransportFixedByEndpoint ==
    /\ instance # None =>
          /\ instance.built.inner.endpoint.kind = "Http"
                <=> StartsWith(instance.endpoint, "http://")
          /\ instance.built.inner.endpoint.kind = "Scgi"
                <=> ~StartsWith(instance.endpoint, "http://")
    /\ op = "execute" => wire = ChosenFor(instance.endpoint)

\* C30 witness: the second call on a Server made for an "https://" string,
\* through a Peer, went to the local socket of that name.
C30_Witness ==
    /\ op = "execute"
    /\ calls = 2
    /\ accessor.via = "Peer"
    /\ StartsWith(instance.endpoint, "https://")
    /\ wire = [transport |-> "call", address |-> instance.endpoint]

====
